---- MODULE Spec2Model ----
(***************************************************************************)
(* Model of the task-manager backend (src/src/index.ts): an Express        *)
(* application whose handlers read and mutate one module-level array,      *)
(* `tasks`.  Every handler runs to completion, so each request is one      *)
(* atomic action.  The state records the array, the request that was       *)
(* served last and the response it was given.                              *)
(*                                                                         *)
(* JavaScript values are tagged: [t |-> typeof-like tag, s |-> text].      *)
(* A JSON body cannot carry `undefined`, so an absent key and a key whose  *)
(* value is undefined are the same thing in a parsed body.                 *)
(***************************************************************************)
EXTENDS Integers, Sequences, FiniteSets, TLC

VARIABLES tasks, issued, changes, request, response

vars == <<tasks, issued, changes, request, response>>

(***************************************************************************)
(* Bounds of the exploration.                                              *)
(***************************************************************************)
\* number of requests that modify the array in one run
MaxChanges == 2

(***************************************************************************)
(* JavaScript values and the string methods the handlers call.             *)
(***************************************************************************)
undefined == [t |-> "undefined", s |-> ""]

null == [t |-> "null", s |-> "null"]

Str(s) == [t |-> "string", s |-> s]

Num(s) == [t |-> "number", s |-> s]

\* a repeated query parameter (?title=a&title=b) is parsed into an array
Arr(s) == [t |-> "object", s |-> s]

\* ToBoolean: what `!v`, `v &&` and `v ||` test
Truthy(v) ==
    CASE v.t = "undefined" -> FALSE
      [] v.t = "null" -> FALSE
      [] v.t = "string" -> v.s # ""
      [] v.t = "number" -> v.s # "0"
      [] OTHER -> TRUE

IsString(v) == v.t = "string"

WhiteSpace == {" ", "\t", "\n"}

RECURSIVE TrimStart(_)
TrimStart(s) ==
    IF s = "" THEN s
    ELSE IF Head(s) \in WhiteSpace THEN TrimStart(Tail(s)) ELSE s

RECURSIVE TrimEnd(_)
TrimEnd(s) ==
    IF s = "" THEN s
    ELSE IF SubSeq(s, Len(s), Len(s)) \in WhiteSpace
         THEN TrimEnd(SubSeq(s, 1, Len(s) - 1))
         ELSE s

\* String.prototype.trim
trim(s) == TrimEnd(TrimStart(s))

UpperAlpha == "ABCDEFGHIJKLMNOPQRSTUVWXYZ"

LowerAlpha == "abcdefghijklmnopqrstuvwxyz"

\* the lower-case letter of every upper-case letter
LowerOf ==
    [c \in {SubSeq(UpperAlpha, i, i) : i \in 1..Len(UpperAlpha)} |->
        LET i == CHOOSE j \in 1..Len(UpperAlpha) : SubSeq(UpperAlpha, j, j) = c
        IN  SubSeq(LowerAlpha, i, i)]

LowerChar(c) == IF c \in DOMAIN LowerOf THEN LowerOf[c] ELSE c

\* String.prototype.toLowerCase
RECURSIVE toLowerCase(_)
toLowerCase(s) ==
    IF s = "" THEN s ELSE LowerChar(Head(s)) \o toLowerCase(Tail(s))

\* String.prototype.includes
includes(s, q) ==
    \E i \in 0..Len(s) :
        /\ i + Len(q) <= Len(s)
        /\ SubSeq(s, i + 1, i + Len(q)) = q

\* String.prototype.startsWith
startsWith(s, p) ==
    /\ Len(p) <= Len(s)
    /\ SubSeq(s, 1, Len(p)) = p

(***************************************************************************)
(* The Task interface and the seed data.                                   *)
(***************************************************************************)
Keys == {"id", "title", "description", "category", "status", "priority", "createdAt"}

\* an object with none of the Task keys: {}
Empty == [k \in Keys |-> undefined]

Task(id, title, description, category, status, priority, createdAt) ==
    [id |-> Str(id), title |-> Str(title), description |-> Str(description),
     category |-> Str(category), status |-> Str(status),
     priority |-> Str(priority), createdAt |-> Str(createdAt)]

SeedTasks ==
    << Task("1", "Fix UI glitches",
            "Resolve layout shift issues on the dashboard when switching themes.",
            "Bug", "To Do", "Low", "2025-07-15T09:00:00Z"),
       Task("2", "Add unit tests",
            "Cover edge cases for the authentication module.",
            "Feature", "To Do", "High", "2025-07-16T10:30:00Z"),
       Task("4", "Refactor auth middleware",
            "Improve code readability and separate concerns for easier testing.",
            "Refactor", "Done", "Medium", "2025-07-12T08:20:00Z"),
       Task("5", "Fix login redirect bug",
            "Users are not redirected properly after logging in.",
            "Bug", "In Progress", "Medium", "2025-07-17T11:10:00Z"),
       Task("7", "Document CLI usage",
            "Write user-facing documentation for the new CLI tool.",
            "Documentation", "Done", "Medium", "2025-07-10T15:40:00Z") >>

(***************************************************************************)
(* Responses.                                                              *)
(***************************************************************************)
Response(status, kind, message, body) ==
    [status |-> status, kind |-> kind, message |-> message, body |-> body]

\* res.status(code).json({ error })
JsonError(status, message) == Response(status, "error", message, <<>>)

\* A handler that throws: Express passes the error to its default error
\* handler, which answers 500 with an HTML page.
Thrown == Response(500, "html", "TypeError", <<>>)

NoResponse == Response(0, "none", "", <<>>)

(***************************************************************************)
(* The handlers.  Each is a function of the array and the request and      *)
(* yields the array it leaves behind and the response it sends.            *)
(***************************************************************************)
Result(ts, res) == [tasks |-> ts, res |-> res]

\* tasks.findIndex((t) => t.id === id), 1-based; 0 stands for -1
findIndex(ts, id) ==
    IF \E i \in 1..Len(ts) : ts[i].id = Str(id)
    THEN CHOOSE i \in 1..Len(ts) :
            /\ ts[i].id = Str(id)
            /\ \A j \in 1..(i - 1) : ts[j].id # Str(id)
    ELSE 0

\* app.get('/')
getRoot(ts) ==
    Result(ts, Response(200, "info", "Task Management Server", <<>>))

\* the filter callback of line 97
TitleMatches(task, title) ==
    includes(toLowerCase(task.title.s), toLowerCase(title.s))

\* the filter callback of line 102
DateMatches(task, date) == startsWith(task.createdAt.s, date.s)

\* app.get('/tasks')
getTasks(ts, title, date) ==
    LET byTitle == Truthy(title) /\ IsString(title)
        byDate == Truthy(date) /\ IsString(date)
        \* task.title.toLowerCase is not a function
        titleThrows == byTitle /\ \E i \in 1..Len(ts) : ~IsString(ts[i].title)
        afterTitle ==
            IF byTitle /\ ~titleThrows
            THEN SelectSeq(ts, LAMBDA task : TitleMatches(task, title))
            ELSE ts
        \* task.createdAt.startsWith is not a function
        dateThrows ==
            byDate /\ \E i \in 1..Len(afterTitle) : ~IsString(afterTitle[i].createdAt)
        afterDate ==
            IF byDate /\ ~dateThrows
            THEN SelectSeq(afterTitle, LAMBDA task : DateMatches(task, date))
            ELSE afterTitle
    IN  IF titleThrows \/ dateThrows
        THEN Result(ts, Thrown)
        ELSE Result(ts, Response(200, "array", "", afterDate))

\* app.get('/tasks/:id')
getTask(ts, id) ==
    IF \E i \in 1..Len(ts) : ts[i].id = Str(id)
    THEN Result(ts, Response(200, "task", "", <<ts[findIndex(ts, id)]>>))
    ELSE Result(ts, JsonError(404, "Task not found"))

\* an id taken from a counter: "1", "2", ...
nanoid_Counter(n) == SubSeq("123456789", n + 1, n + 1)

\* nanoid(): 21 random URL-safe characters.  The generator's outputs are
\* taken to be pairwise distinct and unknown to a client before they are
\* issued; n counts the calls made so far.
nanoid(n) == SubSeq("ABCDEFGHIJKLMNOPQRSTUVWXYZ", n + 1, n + 1) \o "1StGXR8_Z5jdHi6B-myT"

\* the handler with the title tested by `!title` alone
postTasks_NoTrim(ts, body, id, now) ==
    IF ~Truthy(body.title)
    THEN Result(ts, JsonError(400, "Title is required"))
    ELSE IF ~IsString(body.title)
    THEN Result(ts, Thrown)
    ELSE IF ~Truthy(body.category) \/ ~Truthy(body.status) \/ ~Truthy(body.priority)
    THEN Result(ts, JsonError(400, "Category, status and priority are required"))
    ELSE LET newTask ==
                 [id |-> Str(id),
                  title |-> Str(trim(body.title.s)),
                  description |->
                      IF Truthy(body.description) THEN body.description ELSE Str(""),
                  category |-> body.category,
                  status |-> body.status,
                  priority |-> body.priority,
                  createdAt |-> Str(now)]
         IN  Result(Append(ts, newTask), Response(201, "task", "", <<newTask>>))

\* app.post('/tasks')
postTasks(ts, body, id, now) ==
    IF ~Truthy(body.title)
    THEN Result(ts, JsonError(400, "Title is required"))
    ELSE IF ~IsString(body.title)
    THEN Result(ts, Thrown)                \* title.trim is not a function
    ELSE IF trim(body.title.s) = ""
    THEN Result(ts, JsonError(400, "Title is required"))
    ELSE IF ~Truthy(body.category) \/ ~Truthy(body.status) \/ ~Truthy(body.priority)
    THEN Result(ts, JsonError(400, "Category, status and priority are required"))
    ELSE LET newTask ==
                 [id |-> Str(id),
                  title |-> Str(trim(body.title.s)),
                  description |->
                      IF Truthy(body.description) THEN body.description ELSE Str(""),
                  category |-> body.category,
                  status |-> body.status,
                  priority |-> body.priority,
                  createdAt |-> Str(now)]
         IN  Result(Append(ts, newTask), Response(201, "task", "", <<newTask>>))

\* { ...task, ...updates }
Spread(task, updates) ==
    [k \in Keys |-> IF updates[k] # undefined THEN updates[k] ELSE task[k]]

\* the handler with the title validated before the record is looked up
patchTask_TitleFirst(ts, id, updates) ==
    LET taskIndex == findIndex(ts, id)
    IN  IF updates.title # undefined /\ ~IsString(updates.title)
        THEN Result(ts, Thrown)
        ELSE IF updates.title # undefined /\ trim(updates.title.s) = ""
        THEN Result(ts, JsonError(400, "Title cannot be empty"))
        ELSE IF taskIndex = 0
        THEN Result(ts, JsonError(404, "Task not found"))
        ELSE LET merged == Spread(ts[taskIndex], updates)
             IN  Result([ts EXCEPT ![taskIndex] = merged],
                        Response(200, "task", "", <<merged>>))

\* the handler storing the body in place of the record: tasks[i] = updates
patchTask_Replace(ts, id, updates) ==
    LET taskIndex == findIndex(ts, id)
    IN  IF taskIndex = 0
        THEN Result(ts, JsonError(404, "Task not found"))
        ELSE IF updates.title # undefined /\ ~IsString(updates.title)
        THEN Result(ts, Thrown)
        ELSE IF updates.title # undefined /\ trim(updates.title.s) = ""
        THEN Result(ts, JsonError(400, "Title cannot be empty"))
        ELSE Result([ts EXCEPT ![taskIndex] = updates],
                    Response(200, "task", "", <<updates>>))

\* the handler without the check of lines 160-162
patchTask_NoTitleCheck(ts, id, updates) ==
    LET taskIndex == findIndex(ts, id)
    IN  IF taskIndex = 0
        THEN Result(ts, JsonError(404, "Task not found"))
        ELSE LET merged == Spread(ts[taskIndex], updates)
             IN  Result([ts EXCEPT ![taskIndex] = merged],
                        Response(200, "task", "", <<merged>>))

\* app.patch('/tasks/:id')
patchTask(ts, id, updates) ==
    LET taskIndex == findIndex(ts, id)
    IN  IF taskIndex = 0
        THEN Result(ts, JsonError(404, "Task not found"))
        ELSE IF updates.title # undefined /\ ~IsString(updates.title)
        THEN Result(ts, Thrown)            \* updates.title.trim is not a function
        ELSE IF updates.title # undefined /\ trim(updates.title.s) = ""
        THEN Result(ts, JsonError(400, "Title cannot be empty"))
        ELSE LET merged == Spread(ts[taskIndex], updates)
             IN  Result([ts EXCEPT ![taskIndex] = merged],
                        Response(200, "task", "", <<merged>>))

\* tasks.splice(taskIndex, 1)
Splice(ts, i) == SubSeq(ts, 1, i - 1) \o SubSeq(ts, i + 1, Len(ts))

\* app.delete('/tasks/:id')
deleteTask(ts, id) ==
    LET taskIndex == findIndex(ts, id)
    IN  IF taskIndex = 0
        THEN Result(ts, JsonError(404, "Task not found"))
        ELSE Result(Splice(ts, taskIndex), Response(204, "empty", "", <<>>))

\* The arguments Express passes to a middleware function, in order.
MiddlewareArgs == <<"req", "res", "next">>

\* app.use('*', (res) => ...): the function declares one parameter, which
\* receives the first argument; only the response object has status().
notFound(ts, first) ==
    IF first = "res"
    THEN Result(ts, JsonError(404, "Route not found"))
    ELSE Result(ts, Thrown)                \* res.status is not a function

NoRequest ==
    [method |-> "", path |-> "", id |-> "", body |-> Empty,
     title |-> undefined, date |-> undefined]

Init ==
    /\ tasks = SeedTasks
    /\ issued = 0
    /\ changes = 0
    /\ request = NoRequest
    /\ response = NoResponse

(***************************************************************************)
(* The requests a client sends.                                            *)
(***************************************************************************)
\* ids a client names in /tasks/:id : two seed ids, an id nobody has, and
\* every id a 201 response has shown it
RequestIds == {"1", "2", "9"} \cup {nanoid(n) : n \in 0..(issued - 1)}

\* new Date().toISOString() at the time of the request
ClockValues == {"2025-07-15T12:00:00.000Z", "2025-08-01T08:30:00.000Z"}

ValidFields ==
    [Empty EXCEPT !.category = Str("Bug"), !.status = Str("To Do"),
                  !.priority = Str("Low")]

PostBodies ==
    { Empty,
      [ValidFields EXCEPT !.title = Str("  Write bug report ")],
      [ValidFields EXCEPT !.title = Str("Deploy"), !.description = Str("to staging"),
                          !.id = Str("1"), !.createdAt = Str("2025-07-10T00:00:00Z")],
      [ValidFields EXCEPT !.title = Str("")],
      [ValidFields EXCEPT !.title = Str(" \t ")],
      [ValidFields EXCEPT !.title = null],
      [ValidFields EXCEPT !.title = Num("5")],
      [ValidFields EXCEPT !.title = Str("Review"), !.category = Str("")],
      [ValidFields EXCEPT !.title = Str("Review"), !.priority = undefined],
      [Empty EXCEPT !.category = Str("Bug")] }

PatchBodies ==
    { Empty,
      [Empty EXCEPT !.status = Str("Done")],
      [Empty EXCEPT !.title = Str("  Triage BUG reports ")],
      [Empty EXCEPT !.title = Str("")],
      [Empty EXCEPT !.title = Str("  "), !.status = Str("Done")],
      [Empty EXCEPT !.title = null],
      [Empty EXCEPT !.id = Str("2")],
      [Empty EXCEPT !.createdAt = Num("5")],
      [Empty EXCEPT !.id = Str("9"), !.createdAt = Str("2025-07-15T23:59:59Z"),
                    !.description = Str(""), !.priority = Str("High")] }

\* a body that sets id to an id some 201 response has shown
IssuedIdBodies == {[Empty EXCEPT !.id = Str(nanoid(n))] : n \in 0..(issued - 1)}

\* the query strings sent to GET /tasks, as <<title, date>>; undefined when
\* the parameter is not given, an array when it is given twice
Queries ==
    { <<undefined, undefined>>,
      <<Str(""), undefined>>,
      <<Str("bug"), undefined>>,
      <<Str("FIX"), Str("2025-07-15")>>,
      <<Arr("bug,fix"), undefined>>,
      <<undefined, Str("")>>,
      <<undefined, Str("2025-07-15")>>,
      <<Str("bug"), Str("2025-07-1")>>,
      <<undefined, Arr("2025,2026")>> }

\* method and path of requests no route matches
OtherRoutes == {<<"PUT", "/tasks/1">>, <<"GET", "/task">>}

Request(method, path, id, body, title, date) ==
    [method |-> method, path |-> path, id |-> id, body |-> body,
     title |-> title, date |-> date]

\* what every action does with a handler's result
Serve(req, r) ==
    /\ request' = req
    /\ response' = r.res
    /\ tasks' = r.tasks
    /\ changes' = IF r.tasks # tasks THEN changes + 1 ELSE changes

(***************************************************************************)
(* One action per route.                                                   *)
(***************************************************************************)
GetRoot ==
    /\ Serve(Request("GET", "/", "", Empty, undefined, undefined), getRoot(tasks))
    /\ UNCHANGED issued

ListTasks ==
    \E query \in Queries :
        /\ \E r \in {getTasks(tasks, query[1], query[2])} :
               Serve(Request("GET", "/tasks", "", Empty, query[1], query[2]), r)
        /\ UNCHANGED issued

GetTask ==
    \E id \in RequestIds :
        /\ Serve(Request("GET", "/tasks/:id", id, Empty, undefined, undefined),
                 getTask(tasks, id))
        /\ UNCHANGED issued

CreateTask ==
    /\ changes < MaxChanges
    /\ \E body \in PostBodies, now \in ClockValues :
        \E r \in {postTasks(tasks, body, nanoid(issued), now)} :
            /\ Serve(Request("POST", "/tasks", "", body, undefined, undefined), r)
            /\ issued' = IF r.res.status = 201 THEN issued + 1 ELSE issued

UpdateTask ==
    /\ changes < MaxChanges
    /\ \E id \in RequestIds, body \in PatchBodies \cup IssuedIdBodies :
        /\ \E r \in {patchTask(tasks, id, body)} :
               Serve(Request("PATCH", "/tasks/:id", id, body, undefined, undefined), r)
        /\ UNCHANGED issued

DeleteTask ==
    /\ changes < MaxChanges
    /\ \E id \in RequestIds :
        /\ Serve(Request("DELETE", "/tasks/:id", id, Empty, undefined, undefined),
                 deleteTask(tasks, id))
        /\ UNCHANGED issued

Unmatched ==
    \E route \in OtherRoutes :
        /\ Serve(Request(route[1], route[2], "", Empty, undefined, undefined),
                 notFound(tasks, MiddlewareArgs[1]))
        /\ UNCHANGED issued

Next ==
    \/ GetRoot
    \/ ListTasks
    \/ GetTask
    \/ CreateTask
    \/ UpdateTask
    \/ DeleteTask
    \/ Unmatched

Spec == Init /\ [][Next]_vars

(***************************************************************************)
(* Properties.                                                             *)
(***************************************************************************)
IsPost(req) == req.method = "POST" /\ req.path = "/tasks"

IsPatch(req) == req.method = "PATCH" /\ req.path = "/tasks/:id"

IsDelete(req) == req.method = "DELETE" /\ req.path = "/tasks/:id"

IsGetOne(req) == req.method = "GET" /\ req.path = "/tasks/:id"

IsList(req) == req.method = "GET" /\ req.path = "/tasks"

Stored(ts, id) == \E i \in 1..Len(ts) : ts[i].id = Str(id)

\* C1: no two records of the stored collection have the same id.
C1_UniqueIds ==
    \A i, j \in 1..Len(tasks) : tasks[i].id = tasks[j].id => i = j

\* C2: a PATCH of an existing id leaves the id and the createdAt of the
\* targeted record as they were, whatever the body.
C2_PatchKeepsIdAndCreatedAt ==
    [][ (IsPatch(request') /\ Stored(tasks, request'.id)) =>
            LET i == findIndex(tasks, request'.id)
            IN  /\ Len(tasks') >= i
                /\ tasks'[i].id = tasks[i].id
                /\ tasks'[i].createdAt = tasks[i].createdAt ]_vars

\* C3: a DELETE answered 204 followed immediately by a GET of the same id
\* is answered 404.
C3_DeleteThenGet ==
    [][ ( /\ IsDelete(request) /\ response.status = 204
          /\ IsGetOne(request') /\ request'.id = request.id ) =>
            response'.status = 404 ]_vars

\* C4: a request no route matches is answered 404 with a JSON error body
\* and leaves the collection unchanged.
C4_UnmatchedRoute ==
    [][ (<<request'.method, request'.path>> \in OtherRoutes) =>
            /\ response'.status = 404
            /\ response'.kind = "error"
            /\ tasks' = tasks ]_vars

TitleMissingOrBlank(body) ==
    \/ body.title = undefined
    \/ IsString(body.title) /\ trim(body.title.s) = ""

\* C5: a POST whose title is missing, empty or whitespace-only is answered
\* 400 and leaves the collection exactly as it was.
C5_BlankTitleRejected ==
    [][ (IsPost(request') /\ TitleMissingOrBlank(request'.body)) =>
            /\ response'.status = 400
            /\ tasks' = tasks ]_vars

C5_Witness ==
    /\ IsPost(request)
    /\ IsString(request.body.title) /\ request.body.title.s # ""
    /\ trim(request.body.title.s) = ""
    /\ Truthy(request.body.category)
    /\ response.status = 400
    /\ changes > 0

\* C6: a PATCH of an id no record has is answered 404 and leaves the
\* collection unchanged, whatever the body.
C6_PatchUnknownId ==
    [][ (IsPatch(request') /\ ~Stored(tasks, request'.id)) =>
            /\ response'.status = 404
            /\ tasks' = tasks ]_vars

C6_Witness ==
    /\ IsPatch(request)
    /\ ~Stored(tasks, request.id)
    /\ request.body.title # undefined /\ trim(request.body.title.s) = ""
    /\ response.status = 404

\* C7: a successful PATCH changes only the supplied fields of the targeted
\* record; the other fields, the other records and the order stay.
C7_PatchFrame ==
    [][ (IsPatch(request') /\ response'.status = 200) =>
            LET i == findIndex(tasks, request'.id)
            IN  /\ i # 0
                /\ Len(tasks') = Len(tasks)
                /\ \A j \in 1..Len(tasks) : j # i => tasks'[j] = tasks[j]
                /\ \A k \in Keys :
                      request'.body[k] = undefined => tasks'[i][k] = tasks[i][k] ]_vars

C7_Witness ==
    /\ IsPatch(request)
    /\ request.body = [Empty EXCEPT !.status = Str("Done")]
    /\ response.status = 200
    /\ \E i \in 1..Len(tasks) :
          /\ tasks[i] = response.body[1]
          /\ tasks[i].status = Str("Done")
          /\ tasks[i].title = Str("Fix UI glitches")

TitleNonEmptyTrimmed(body) == IsString(body.title) /\ trim(body.title.s) # ""

Present(v) == v # undefined

\* what a Create that succeeds does
Created ==
    /\ response'.status = 201
    /\ Len(tasks') = Len(tasks) + 1
    /\ SubSeq(tasks', 1, Len(tasks)) = tasks
    /\ \A i \in 1..Len(tasks) : tasks[i].id # tasks'[Len(tasks')].id

\* C8 as stated: a POST with a non-empty trimmed title and category, status
\* and priority all present is answered 201 and appends one record with an
\* id no stored record has, leaving the earlier records and their order.
C8_Original ==
    [][ ( /\ IsPost(request')
          /\ TitleNonEmptyTrimmed(request'.body)
          /\ Present(request'.body.category)
          /\ Present(request'.body.status)
          /\ Present(request'.body.priority) ) => Created ]_vars

\* C8 amended: the same when category, status and priority are all truthy
\* (present and not an empty string, null, 0 or false).
C8_ValidCreate ==
    [][ ( /\ IsPost(request')
          /\ TitleNonEmptyTrimmed(request'.body)
          /\ Truthy(request'.body.category)
          /\ Truthy(request'.body.status)
          /\ Truthy(request'.body.priority) ) => Created ]_vars

C8_Witness ==
    /\ IsPost(request)
    /\ response.status = 201
    /\ Len(tasks) = Len(SeedTasks) + 2
    /\ tasks[Len(tasks)] = response.body[1]
    /\ tasks[Len(tasks)].id = Str(nanoid(1))

CharAt(s, i) == SubSeq(s, i, i)

\* q occurs in s when the case of letters is ignored
ContainsIgnoringCase(s, q) ==
    \E off \in 0..Len(s) :
        /\ off + Len(q) <= Len(s)
        /\ \A k \in 1..Len(q) :
              LowerChar(CharAt(s, off + k)) = LowerChar(CharAt(q, k))

\* the record satisfies every filter that was supplied as a string; a field
\* is read as its text
SatisfiesFilters(task, title, date) ==
    /\ IsString(title) => ContainsIgnoringCase(task.title.s, title.s)
    /\ IsString(date) =>
          /\ Len(date.s) <= Len(task.createdAt.s)
          /\ \A k \in 1..Len(date.s) : CharAt(task.createdAt.s, k) = CharAt(date.s, k)

\* C9: GET /tasks returns exactly the stored records that satisfy every
\* supplied filter, in storage order, and never modifies the collection.
C9_ListFilters ==
    [][ IsList(request') =>
            /\ response'.status = 200
            /\ response'.kind = "array"
            /\ response'.body =
                  SelectSeq(tasks, LAMBDA task :
                      SatisfiesFilters(task, request'.title, request'.date))
            /\ tasks' = tasks ]_vars

\* C10: the title of every stored record is non-empty after trimming.
C10_TitlesNonEmpty ==
    \A i \in 1..Len(tasks) :
        IsString(tasks[i].title) /\ trim(tasks[i].title.s) # ""

C10_Witness ==
    /\ IsPatch(request)
    /\ request.body.title # undefined
    /\ response.status = 400
    /\ \E i \in 1..Len(tasks) : tasks[i].title = Str("  Triage BUG reports ")

====
